---------------------------- MODULE Spec2Model ----------------------------
(***************************************************************************)
(* A model of crawler/production_crawler.py: the BFS crawl loop (bfs), the *)
(* page download (download_file), the robots.txt gate (RobotChecker), the  *)
(* per-domain rate limiter (DomainRateLimiter) and the URL normalizer      *)
(* (normalize_url).                                                        *)
(*                                                                         *)
(* A Python str is a sequence of one-character strings.  Python's None and *)
(* the empty str are both the empty sequence: the code only ever tests the *)
(* result of normalize_url and of download_file for truthiness.            *)
(***************************************************************************)
EXTENDS Integers, Sequences, FiniteSets, TLC

(***************************************************************************)
(* Bounds of the model.                                                    *)
(***************************************************************************)
\* largest max_urls budget a run is started with
MaxUrls == 2
\* largest max_depth a run is started with
MaxDepth == 1
\* longest time, in clock ticks, a network request takes to return
MaxLatency == 1
\* largest delay_between_requests, in clock ticks, a run is started with
MaxDelay == 2

None == <<>>

(***************************************************************************)
(* str helpers                                                             *)
(***************************************************************************)
\* str.find(c, start) with 1-based positions; 0 when c does not occur
Find(s, c, start) ==
    LET hits == {i \in start..Len(s) : s[i] = c}
    IN  IF hits = {} THEN 0 ELSE CHOOSE i \in hits : \A j \in hits : i <= j

\* str.rfind(c); 0 when c does not occur
RFind(s, c) ==
    LET hits == {i \in 1..Len(s) : s[i] = c}
    IN  IF hits = {} THEN 0 ELSE CHOOSE i \in hits : \A j \in hits : i >= j

\* s[i:] with a 1-based first position
From(s, i) == SubSeq(s, i, Len(s))

\* s[:i-1] with a 1-based end position (exclusive)
Upto(s, i) == SubSeq(s, 1, i - 1)

\* sub in s
Contains(s, sub) ==
    \E i \in 1..(Len(s) - Len(sub) + 1) : SubSeq(s, i, i + Len(sub) - 1) = sub

StartsWith(s, p) == Len(s) >= Len(p) /\ SubSeq(s, 1, Len(p)) = p

EndsWith(s, c) == Len(s) > 0 /\ s[Len(s)] = c

Letters == {"a", "b", "c", "d", "e", "f", "g", "h", "i", "j", "k", "l", "m",
            "n", "o", "p", "q", "r", "s", "t", "u", "v", "w", "x", "y", "z"}
Uppers == {"A", "H", "T"}

\* str.lower() on the model's alphabet
LowerChar(c) ==
    IF c = "A" THEN "a" ELSE IF c = "H" THEN "h" ELSE IF c = "T" THEN "t" ELSE c

Lower(s) == [i \in 1..Len(s) |-> LowerChar(s[i])]

\* urllib.parse.scheme_chars, cut to the model's alphabet
SchemeChars == Letters \cup Uppers \cup {"+", "-", "."}

(***************************************************************************)
(* The web a run crawls: the seed files, the pages' hrefs, and what the    *)
(* servers answer.                                                         *)
(***************************************************************************)
Http == <<"h", "t", "t", "p">>
Css == <<":", "/", "/">>
OriginA == Http \o Css \o <<"a">>
OriginB == Http \o Css \o <<"b">>
UrlRoot == OriginA \o <<"/">>
UrlX == OriginA \o <<"/", "x">>
UrlXFrag == OriginA \o <<"/", "x", "#", "f">>
UrlXSlash == OriginA \o <<"/", "x", "/">>
UrlP == OriginA \o <<"/", "p">>
\* normalize_url cuts one "/" off: the result is UrlXSlash
UrlXSlashes == OriginA \o <<"/", "x", "/", "/">>
UrlBY == OriginB \o <<"/", "y">>
UrlFtp == <<"f", "t", "p">> \o Css \o <<"a", "/", "x">>
UrlMail == <<"m", "a", "i", "l", "t", "o", ":", "m">>
\* a str urlparse raises ValueError on
UrlBad == Http \o Css \o <<"[", "a", "/">>

\* the lines of the seed files a run is started from
SeedFiles == {<<>>, <<UrlRoot>>, <<UrlP>>, <<UrlRoot, UrlBY>>,
              <<UrlFtp, UrlXSlash, UrlX>>, <<UrlBad, UrlRoot>>}

\* the hrefs of the anchors of the pages a server can return
Pages ==
    {<<>>, <<UrlX, UrlXFrag, UrlBY>>, <<UrlRoot, UrlP, UrlMail, UrlXSlashes>>}

(***************************************************************************)
(* urllib.parse.urlparse, as normalize_url, can_fetch, wait_if_needed and  *)
(* bfs use it.  The result is the record of the six components.            *)
(***************************************************************************)
\* the schemes of urllib.parse.uses_params that the alphabet can spell
UsesParams == {<<>>, <<"f", "t", "p">>, <<"h", "t", "t", "p">>,
               <<"h", "t", "t", "p", "s">>, <<"s", "h", "t", "t", "p">>}

\* urlsplit's scheme step: [scheme, rest]
SplitScheme(url) ==
    LET i == Find(url, ":", 1)
    IN  IF i > 1 /\ url[1] \in Letters \cup Uppers
           /\ \A k \in 1..(i - 1) : url[k] \in SchemeChars
        THEN [scheme |-> Lower(Upto(url, i)), rest |-> From(url, i + 1)]
        ELSE [scheme |-> <<>>, rest |-> url]

\* urlsplit's netloc step (_splitnetloc): [netloc, rest]
SplitNetloc(url) ==
    IF Len(url) >= 2 /\ url[1] = "/" /\ url[2] = "/"
    THEN LET ends == {i \in 3..Len(url) : url[i] \in {"/", "?", "#"}}
             delim == IF ends = {} THEN Len(url) + 1
                      ELSE CHOOSE i \in ends : \A j \in ends : i <= j
         IN  [netloc |-> SubSeq(url, 3, delim - 1), rest |-> From(url, delim)]
    ELSE [netloc |-> <<>>, rest |-> url]

\* url.split('#', 1) and url.split('?', 1): [head, tail]
SplitAt(url, c) ==
    LET i == Find(url, c, 1)
    IN  IF i = 0 THEN [head |-> url, tail |-> <<>>]
        ELSE [head |-> Upto(url, i), tail |-> From(url, i + 1)]

\* urllib.parse._splitparams: [head, tail]
SplitParams(url) ==
    LET slash == RFind(url, "/")
        i == IF slash > 0 THEN Find(url, ";", slash) ELSE Find(url, ";", 1)
    IN  IF i = 0 THEN [head |-> url, tail |-> <<>>]
        ELSE [head |-> Upto(url, i), tail |-> From(url, i + 1)]

urlparse_uncached(url) ==
    LET s == SplitScheme(url)
        n == SplitNetloc(s.rest)
        f == SplitAt(n.rest, "#")
        q == SplitAt(f.head, "?")
        p == IF s.scheme \in UsesParams THEN SplitParams(q.head)
             ELSE [head |-> q.head, tail |-> <<>>]
    IN  [scheme |-> s.scheme, netloc |-> n.netloc, path |-> p.head,
         params |-> p.tail, query |-> q.tail, fragment |-> f.tail]

\* urlsplit raises ValueError("Invalid IPv6 URL") on a netloc with one of
\* the brackets and not the other.  The alphabet has "[" and no "]".
ParseRaises(url) ==
    LET netloc == SplitNetloc(SplitScheme(url).rest).netloc
    IN  \E i \in 1..Len(netloc) : netloc[i] = "["

HttpSchemes == {<<"h", "t", "t", "p">>, <<"h", "t", "t", "p", "s">>}

\* normalize_url without its test of the scheme
NormalizeParsedAnyScheme(parsed) ==
    LET base == parsed.scheme \o <<":", "/", "/">> \o parsed.netloc \o parsed.path
        withq == IF parsed.query # <<>> THEN base \o <<"?">> \o parsed.query
                 ELSE base
    IN  IF parsed.scheme = <<>> \/ parsed.netloc = <<>> THEN None
        ELSE IF EndsWith(withq, "/") /\ Len(parsed.path) > 1
             THEN Upto(withq, Len(withq))
             ELSE withq

\* normalize_url from its second statement on
NormalizeParsed(parsed) ==
    LET base == parsed.scheme \o <<":", "/", "/">> \o parsed.netloc \o parsed.path
        withq == IF parsed.query # <<>> THEN base \o <<"?">> \o parsed.query
                 ELSE base
    IN  IF parsed.scheme = <<>> \/ parsed.netloc = <<>> THEN None
        ELSE IF parsed.scheme \notin HttpSchemes THEN None
        ELSE IF EndsWith(withq, "/") /\ Len(parsed.path) > 1
             THEN Upto(withq, Len(withq))
             ELSE withq

\* every str a run can hand to urlparse: the seeds, the hrefs, and what
\* normalize_url makes of them
Hrefs == UNION {{f[i] : i \in 1..Len(f)} : f \in SeedFiles \cup Pages}
KnownUrls ==
    Hrefs \cup {NormalizeParsed(urlparse_uncached(u)) : u \in Hrefs}

\* urlsplit's functools.lru_cache
ParseCache == [u \in KnownUrls |-> urlparse_uncached(u)]

urlparse(url) ==
    IF url \in KnownUrls THEN ParseCache[url] ELSE urlparse_uncached(url)


\* f"{parsed.scheme}://{parsed.netloc}"
OriginOfParsed(parsed) == parsed.scheme \o <<":", "/", "/">> \o parsed.netloc

OriginOf(url) == OriginOfParsed(urlparse(url))

\* try: parsed = urlparse(url) ... except Exception: return None
NormalizeUncached(url) ==
    IF ParseRaises(url) THEN None ELSE NormalizeParsed(urlparse(url))

\* the values of normalize_url on the strs of a run, computed once
NormalizeTable == [u \in KnownUrls |-> NormalizeUncached(u)]

normalize_url(url) ==
    IF url \in KnownUrls THEN NormalizeTable[url] ELSE NormalizeUncached(url)

(***************************************************************************)
(* The servers' answers                                                  *)
(***************************************************************************)
\* what a server can answer to GET {origin}/robots.txt: a file without rules
\* for the crawler, a file with "Disallow: /p", an HTTP error status, or no
\* answer at all (connection error, timeout, undecodable body)
RobotsReplies == {"rules_open", "rules_private", "http_404", "http_403",
                  "http_500", "net_error"}

\* how long a request can take to return
Latencies == {0, MaxLatency}

\* what requests.get and the save of the page can end in
FetchOutcomes == {"ok", "timeout", "network", "http_error", "non_html",
                  "save_error"}

(***************************************************************************)
(* load_urls_to_deque                                                      *)
(***************************************************************************)
\* the characters str.strip() removes, of the model's alphabet
Whitespace == {" ", "\t", "\n"}

\* the line as it is, surrounding whitespace included
NoStrip(line) == line

\* line.strip()
Strip(line) ==
    LET inked == {i \in 1..Len(line) : line[i] \notin Whitespace}
    IN  IF inked = {} THEN <<>>
        ELSE SubSeq(line,
                    CHOOSE i \in inked : \A j \in inked : i <= j,
                    CHOOSE i \in inked : \A j \in inked : i >= j)

\* url and not url.startswith('#')
IsSeedLine(url) == url # <<>> /\ ~StartsWith(url, <<"#">>)

\* the for loop over the lines of the seed file
load_urls_to_deque(lines) ==
    LET urls == SelectSeq([i \in 1..Len(lines) |-> Strip(lines[i])], IsSeedLine)
    IN  [i \in 1..Len(urls) |-> <<urls[i], 0>>]

\* load_urls_to_deque(file_path): open() raises FileNotFoundError on a file
\* that is not there, and deque() is returned
LoadSeedFile(file) ==
    IF ~file.found THEN <<>> ELSE load_urls_to_deque(file.lines)

(***************************************************************************)
(* RobotChecker.  urllib.robotparser.RobotFileParser is the parser state   *)
(* [disallow_all, allow_all, last_checked, disallow]: read() sets          *)
(* disallow_all on 401/403, allow_all on other 4xx, nothing on 5xx, parses *)
(* the body otherwise, and lets a connection error through as an exception *)
(***************************************************************************)
RobotFileParser ==
    [disallow_all |-> FALSE, allow_all |-> FALSE, last_checked |-> FALSE,
     disallow |-> {}]

\* rp.read() raises
ReadRaises(reply) == reply = "net_error"

\* rp after rp.read() returned
rp_read(reply) ==
    CASE reply = "http_403" -> [RobotFileParser EXCEPT !.disallow_all = TRUE]
      [] reply = "http_404" -> [RobotFileParser EXCEPT !.allow_all = TRUE]
      [] reply = "rules_open" -> [RobotFileParser EXCEPT !.last_checked = TRUE]
      [] reply = "rules_private" ->
            [RobotFileParser EXCEPT !.last_checked = TRUE,
                                    !.disallow = {<<"/", "p">>}]
      [] OTHER -> RobotFileParser

\* the path robot.can_fetch matches the rules against
RulePath(parsed) == IF parsed.path = <<>> THEN <<"/">> ELSE parsed.path

\* robot.can_fetch(self.user_agent, url)
rp_can_fetch(rp, url) ==
    IF rp.disallow_all THEN FALSE
    ELSE IF rp.allow_all THEN TRUE
    ELSE IF ~rp.last_checked THEN FALSE
    ELSE \A rule \in rp.disallow : ~StartsWith(RulePath(urlparse(url)), rule)

\* self.robots_cache[domain] = rp
StoreParserNowhere(cache, domain, rp) == cache

StoreParser(cache, domain, rp) ==
    [d \in DOMAIN cache \cup {domain} |-> IF d = domain THEN rp ELSE cache[d]]

\* f"{domain}/robots.txt"
RobotsTxt == <<"/", "r", "o", "b", "o", "t", "s", ".", "t", "x", "t">>

RobotsRequest(domain, t, reply) ==
    [kind |-> "robots", origin |-> domain,
     url |-> domain \o RobotsTxt, time |-> t, reply |-> reply]

\* can_fetch from the cache lookup on, domain being the URL's origin
CheckDomain(rc, url, domain, reply, lat, t) ==
    LET same == [ret |-> TRUE, rc |-> rc, reqs |-> <<>>, now |-> t]
        req == <<RobotsRequest(domain, t, reply)>>
        cache == StoreParser(rc.robots_cache, domain, rp_read(reply))
    IN  IF domain \in rc.failed_domains THEN same
        ELSE IF domain \notin DOMAIN rc.robots_cache
        THEN IF ReadRaises(reply)
             THEN [ret |-> TRUE,
                   rc |-> [rc EXCEPT !.failed_domains = @ \cup {domain}],
                   reqs |-> req, now |-> t + lat]
             ELSE [ret |-> IF domain \in DOMAIN cache
                           THEN rp_can_fetch(cache[domain], url)
                           ELSE TRUE,
                   rc |-> [rc EXCEPT !.robots_cache = cache],
                   reqs |-> req, now |-> t + lat]
        ELSE [same EXCEPT !.ret = rp_can_fetch(rc.robots_cache[domain], url)]

\* can_fetch without the test of respect_robots
CanFetchChecked(rc, respect_robots, url, reply, lat, t) ==
    CheckDomain(rc, url, OriginOf(url), reply, lat, t)

\* can_fetch called at time t on the checker state rc; reply and lat are the
\* server's answer to the robots.txt request, if one is made, and the time it
\* takes.  The result: the verdict, the checker state, the requests issued
\* and the time of the return.
can_fetch(rc, respect_robots, url, reply, lat, t) ==
    IF ~respect_robots
    THEN [ret |-> TRUE, rc |-> rc, reqs |-> <<>>, now |-> t]
    ELSE CheckDomain(rc, url, OriginOf(url), reply, lat, t)

\* socket.setdefaulttimeout(10)
RobotsTimeout == 10

\* socket.getdefaulttimeout() after can_fetch returned, old_timeout being
\* its value at the call: rp.read() runs under RobotsTimeout, and the
\* statement that sets old_timeout again follows rp.read() in the try block.
\* A timeout is None or the sequence of one number.
DefaultTimeoutAfter(rc, respect_robots, url, reply, old_timeout) ==
    IF ~respect_robots THEN old_timeout
    ELSE IF OriginOf(url) \in rc.failed_domains THEN old_timeout
    ELSE IF OriginOf(url) \in DOMAIN rc.robots_cache THEN old_timeout
    ELSE IF ReadRaises(reply) THEN <<RobotsTimeout>>
    ELSE old_timeout

(***************************************************************************)
(* DomainRateLimiter                                                       *)
(***************************************************************************)
\* self.domain_last_request[domain] = time.time(), at time t
RecordRequest(domain_last_request, domain, t) ==
    [d \in DOMAIN domain_last_request \cup {domain} |->
        IF d = domain THEN t ELSE domain_last_request[d]]

\* one limit for all origins: the limiter sleeps on the latest request to any
WakeTimeAnyOrigin(domain_last_request, default_delay, domain, t) ==
    IF \E d \in DOMAIN domain_last_request :
          t - domain_last_request[d] < default_delay
    THEN CHOOSE w \in t..(t + default_delay) :
            /\ \A d \in DOMAIN domain_last_request :
                  w - domain_last_request[d] >= default_delay
            /\ \A v \in t..(w - 1) :
                  \E d \in DOMAIN domain_last_request :
                     v - domain_last_request[d] < default_delay
    ELSE t

\* the time at which time.sleep returns, if the limiter has to sleep
WakeTime(domain_last_request, default_delay, domain, t) ==
    IF domain \in DOMAIN domain_last_request
       /\ t - domain_last_request[domain] < default_delay
    THEN t + (default_delay - (t - domain_last_request[domain]))
    ELSE t

WaitForDomainNoSleep(domain_last_request, default_delay, domain, t) ==
    [domain_last_request |-> RecordRequest(domain_last_request, domain, t),
     now |-> t]

\* wait_if_needed from its third statement on
WaitForDomain(domain_last_request, default_delay, domain, t) ==
    LET woke == WakeTime(domain_last_request, default_delay, domain, t)
    IN  [domain_last_request |->
            RecordRequest(domain_last_request, domain, woke),
         now |-> woke]

\* wait_if_needed called at time t: the limiter state and the time of return
wait_if_needed(domain_last_request, default_delay, url, t) ==
    WaitForDomain(domain_last_request, default_delay, OriginOf(url), t)

(***************************************************************************)
(* download_file                                                           *)
(***************************************************************************)
PageRequest(url, t) ==
    [kind |-> "page", origin |-> OriginOf(url), url |-> url, time |-> t,
     reply |-> "sent"]

\* str(Path(save_dir) / f"{doc_id}.html"), a non-empty str
FilePath(doc_id) == <<doc_id>>

\* the files {doc_id}.html and {doc_id}.meta written for url
WriteFiles(files, doc_id, url) ==
    [i \in DOMAIN files \cup {doc_id} |-> IF i = doc_id THEN url ELSE files[i]]

\* download_file after the rate limiter returned w: the request, the checks
\* of the response and the save
FetchAndSave(url, doc_id, files, env, cf, w) ==
    [ret |-> IF env.fetch = "ok" THEN FilePath(doc_id) ELSE None,
     rc |-> cf.rc,
     domain_last_request |-> w.domain_last_request,
     files |-> IF env.fetch = "ok" THEN WriteFiles(files, doc_id, url)
               ELSE files,
     reqs |-> cf.reqs \o <<PageRequest(url, w.now)>>,
     now |-> w.now + env.flat, allowed |-> TRUE]

\* download_file after can_fetch returned cf
AfterGate(url, doc_id, domain_last_request, default_delay, files, env, cf) ==
    IF ~cf.ret
    THEN [ret |-> None, rc |-> cf.rc,
          domain_last_request |-> domain_last_request, files |-> files,
          reqs |-> cf.reqs, now |-> cf.now, allowed |-> FALSE]
    ELSE FetchAndSave(url, doc_id, files, env, cf,
                      wait_if_needed(domain_last_request, default_delay, url,
                                     cf.now))

\* download_file called at time t.  env is what the servers answer: the
\* robots.txt reply and its latency, the outcome of the page request and of
\* the save, and its latency.  The result: the path returned (None on every
\* failure), the state of the checker, of the limiter and of the save
\* directory, the requests issued and the time of the return.
download_file(url, doc_id, domain_last_request, default_delay, rc, respect_robots, files, env, t) ==
    AfterGate(url, doc_id, domain_last_request, default_delay, files, env,
              can_fetch(rc, respect_robots, url, env.reply, env.rlat, t))

(***************************************************************************)
(* parse_url                                                               *)
(***************************************************************************)
\* urllib.parse.urlunparse
urlunparse(scheme, netloc, path, params, query, fragment) ==
    LET u1 == IF params # <<>> THEN path \o <<";">> \o params ELSE path
        u2 == IF netloc # <<>>
                 \/ (scheme # <<>> /\ ~StartsWith(u1, <<"/", "/">>))
              THEN <<"/", "/">> \o netloc
                   \o (IF u1 # <<>> /\ u1[1] # "/" THEN <<"/">> ELSE <<>>)
                   \o u1
              ELSE u1
        u3 == IF scheme # <<>> THEN scheme \o <<":">> \o u2 ELSE u2
        u4 == IF query # <<>> THEN u3 \o <<"?">> \o query ELSE u3
    IN  IF fragment # <<>> THEN u4 \o <<"#">> \o fragment ELSE u4

\* urljoin on the parsed base b and the parsed url u
JoinParsed(base, url, b, u) ==
    LET scheme == IF u.scheme = <<>> THEN b.scheme ELSE u.scheme
    IN  IF base = <<>> THEN url
        ELSE IF url = <<>> THEN base
        ELSE IF scheme # b.scheme \/ scheme \notin UsesParams THEN url
        ELSE IF u.netloc # <<>>
        THEN urlunparse(scheme, u.netloc, u.path, u.params, u.query,
                        u.fragment)
        ELSE IF u.path = <<>> /\ u.params = <<>>
        THEN urlunparse(scheme, b.netloc, b.path, b.params,
                        IF u.query = <<>> THEN b.query ELSE u.query,
                        u.fragment)
        ELSE urlunparse(scheme, b.netloc, u.path, u.params, u.query,
                        u.fragment)

\* urllib.parse.urljoin for an href that is absolute or starts with "/"
urljoin(base, url) == JoinParsed(base, url, urlparse(base), urlparse(url))

\* href.startswith(('javascript:', 'mailto:', 'tel:', '#', 'data:'))
SkippedHref(href) ==
    \/ StartsWith(href, <<"j", "a", "v", "a", "s", "c", "r", "i", "p", "t", ":">>)
    \/ StartsWith(href, <<"m", "a", "i", "l", "t", "o", ":">>)
    \/ StartsWith(href, <<"t", "e", "l", ":">>)
    \/ StartsWith(href, <<"#">>)
    \/ StartsWith(href, <<"d", "a", "t", "a", ":">>)

Range(s) == {s[i] : i \in 1..Len(s)}

\* links returned as they were collected, duplicates included
UniqueKeepAll(links) == links

\* list(dict.fromkeys(links))
RECURSIVE Unique(_)
Unique(links) ==
    IF links = <<>> THEN <<>>
    ELSE LET front == Unique(SubSeq(links, 1, Len(links) - 1))
             x == links[Len(links)]
         IN  IF x \in Range(front) THEN front ELSE Append(front, x)

IsLink(x) == x # None

\* urljoin(base, url) raises: the ValueError of urlparse on one of the two
UrljoinRaises(base, url) ==
    base # <<>> /\ url # <<>> /\ (ParseRaises(base) \/ ParseRaises(url))

\* hrefs are the href attributes of the saved page's anchors, in page order.
\* An exception in the loop is caught at line 228 and [] is returned.
ParseUncached(hrefs, base_url) ==
    LET normalized ==
            [i \in 1..Len(hrefs) |->
                IF SkippedHref(hrefs[i]) THEN None
                ELSE normalize_url(urljoin(base_url, hrefs[i]))]
    IN  IF \E i \in 1..Len(hrefs) :
              ~SkippedHref(hrefs[i]) /\ UrljoinRaises(base_url, hrefs[i])
        THEN <<>>
        ELSE Unique(SelectSeq(normalized, IsLink))

\* the values of parse_url on the pages of the servers, computed once
ParseTable ==
    [c \in Pages \X {u \in KnownUrls : NormalizeUncached(u) = u}
        |-> ParseUncached(c[1], c[2])]

parse_url(hrefs, base_url) ==
    IF <<hrefs, base_url>> \in DOMAIN ParseTable
    THEN ParseTable[<<hrefs, base_url>>]
    ELSE ParseUncached(hrefs, base_url)


(***************************************************************************)
(* bfs.  The state is that of one call of bfs: its parameters, its locals, *)
(* the checker and the limiter it creates, the save directory and the      *)
(* clock.  requests, attempts and last record what the run did: every HTTP *)
(* request with the time it was issued, every call of download_file with   *)
(* its result and the links parse_url returned for the page it saved, if   *)
(* bfs called parse_url on it, and the way the last loop iteration ended.  *)
(***************************************************************************)
VARIABLES seeds, max_urls, max_depth, delay_between_requests,
          same_domain_only, respect_robots, seed_domains,
          url_queue, visited, doc_id, crawled_count, failed_count,
          blocked_count, robot_checker, rate_limiter, files, now, pc,
          requests, attempts, last

\* A call of normalize_url on its own, outside a run: the argument, the
\* value returned, a second URL that differs from the argument by its
\* fragment or by a trailing slash with the value returned for it, the
\* value returned for the first result, and how far the calls have got.
VARIABLES nu_pc, nu_arg, nu_ret, nu_twin, nu_twin_ret, nu_again

nu == <<nu_pc, nu_arg, nu_ret, nu_twin, nu_twin_ret, nu_again>>

\* A call of load_urls_to_deque, of parse_url or of download_file on its
\* own: which function is called and how far the call has got, its
\* argument, and what it returns.
VARIABLES call_pc, call_arg, call_ret

call == <<call_pc, call_arg, call_ret>>

vars == <<seeds, max_urls, max_depth, delay_between_requests,
          same_domain_only, respect_robots, seed_domains,
          url_queue, visited, doc_id, crawled_count, failed_count,
          blocked_count, robot_checker, rate_limiter, files, now, pc,
          requests, attempts, last,
          nu_pc, nu_arg, nu_ret, nu_twin, nu_twin_ret, nu_again,
          call_pc, call_arg, call_ret>>

params == <<seeds, max_urls, max_depth, delay_between_requests,
            same_domain_only, respect_robots, seed_domains>>

\* an empty dict
EmptyDict == [d \in {} |-> 0]

\* seed_domains: the netloc of every entry of the queue, when the
\* restriction is on
SeedDomains(queue, restricted) ==
    IF restricted THEN {urlparse(queue[i][1]).netloc : i \in 1..Len(queue)}
    ELSE {}

\* urlparse(url) raises for one of the entries of the queue: the ValueError
\* leaves bfs, nothing in bfs catches it
SeedDomainsRaises(queue, restricted) ==
    restricted /\ \E i \in 1..Len(queue) : ParseRaises(queue[i][1])

\* bfs called on the queue load_urls_to_deque returns, up to the start of
\* its loop.  max_depth = -1 is a misconfigured depth budget, under which
\* the seeds themselves exceed it.  pc is "raised" when the call has ended
\* in the exception the extraction of the seed domains raises.
Init ==
    /\ seeds \in SeedFiles
    /\ max_urls \in {1, MaxUrls}
    /\ max_depth \in {-1, 0, MaxDepth}
    /\ delay_between_requests \in {0, MaxDelay}
    /\ same_domain_only \in BOOLEAN
    /\ respect_robots \in BOOLEAN
    /\ url_queue = load_urls_to_deque(seeds)
    /\ seed_domains = IF SeedDomainsRaises(url_queue, same_domain_only) THEN {}
                      ELSE SeedDomains(url_queue, same_domain_only)
    /\ visited = {}
    /\ doc_id = 0
    /\ crawled_count = 0
    /\ failed_count = 0
    /\ blocked_count = 0
    /\ robot_checker = [robots_cache |-> EmptyDict, failed_domains |-> {}]
    /\ rate_limiter = EmptyDict
    /\ files = EmptyDict
    /\ now = 0
    /\ pc = IF SeedDomainsRaises(url_queue, same_domain_only) THEN "raised"
            ELSE "loop"
    /\ requests = <<>>
    /\ attempts = <<>>
    /\ last = [op |-> "start", url |-> None, depth |-> 0]
    /\ nu_pc = "off"
    /\ nu_arg = None
    /\ nu_ret = None
    /\ nu_twin = None
    /\ nu_twin_ret = None
    /\ nu_again = None
    /\ call_pc = "off"
    /\ call_arg = None
    /\ call_ret = None

\* while url_queue and crawled_count < max_urls
LoopGuardNoBudget(queue, crawled, budget) == queue # <<>>

LoopGuard(queue, crawled, budget) == queue # <<>> /\ crawled < budget

\* if same_domain_only: ... if parsed.netloc not in seed_domains: continue
DomainAllowedAlways(restricted, domains, url) == TRUE

DomainAllowed(restricted, domains, url) ==
    restricted => urlparse(url).netloc \in domains

\* visited.add(normalized_url)
MarkVisitedNever(seen, url) == seen

\* visited = {normalized_url}: the earlier elements are lost
MarkVisitedOnly(seen, url) == {url}

MarkVisited(seen, url) == seen \cup {url}

\* if depth < max_depth
ShouldExpandAtLimit(depth, limit) == depth <= limit

ShouldExpand(depth, limit) == depth < limit

\* the loop without its test of visited
IsNewAlways(seen, link) == TRUE

IsNew(seen, link) == link \notin seen

\* the loop with url_queue.extendleft in the place of append
EnqueueLeft(queue, links, seen, depth) ==
    LET new == SelectSeq(links, LAMBDA link : IsNew(seen, link))
    IN  [i \in 1..Len(new) |-> <<new[i], depth + 1>>] \o queue

\* for link in links: if link not in visited: url_queue.append((link, depth + 1))
Enqueue(queue, links, seen, depth) ==
    LET new == SelectSeq(links, LAMBDA link : IsNew(seen, link))
    IN  queue \o [i \in 1..Len(new) |-> <<new[i], depth + 1>>]

\* doc_id += 1
NextDocIdSame(id) == id

NextDocId(id) == id + 1

\* if not robot_checker.can_fetch(normalized_url): blocked_count += 1
\* else: failed_count += 1
OutcomeOfNoneFailed(can) == "failed"

\* the else branch counting every None as blocked
OutcomeOfNoneBlocked(can) == "blocked"

OutcomeOfNone(can) == IF ~can THEN "blocked" ELSE "failed"

Running == pc = "loop" /\ LoopGuard(url_queue, crawled_count, max_urls)

Head1 == url_queue[1]

\* url_queue.popleft() that leaves the entry in the queue
popleft_kept(queue) == queue

\* url, depth = url_queue.popleft(): the queue it leaves
popleft(queue) == Tail(queue)

\* an iteration that ends in one of the loop's four "continue" statements
Discard(op) ==
    /\ url_queue' = popleft(url_queue)
    /\ last' = [op |-> op, url |-> Head1[1], depth |-> Head1[2]]
    /\ UNCHANGED <<nu, call, params, visited, doc_id, crawled_count, failed_count,
                   blocked_count, robot_checker, rate_limiter, files, now,
                   pc, requests, attempts>>

SkipDepth ==
    /\ Running
    /\ Head1[2] > max_depth
    /\ Discard("skip_depth")

SkipMalformed ==
    /\ Running
    /\ Head1[2] <= max_depth
    /\ normalize_url(Head1[1]) = None
    /\ Discard("skip_malformed")

SkipVisited ==
    /\ Running
    /\ Head1[2] <= max_depth
    /\ \E normalized_url \in {normalize_url(Head1[1])} :
          /\ normalized_url # None
          /\ normalized_url \in visited
    /\ Discard("skip_visited")

SkipDomain ==
    /\ Running
    /\ Head1[2] <= max_depth
    /\ \E normalized_url \in {normalize_url(Head1[1])} :
          /\ normalized_url # None
          /\ normalized_url \notin visited
          /\ ~DomainAllowed(same_domain_only, seed_domains, normalized_url)
    /\ Discard("skip_domain")

\* whether can_fetch(url) has to ask the server
AsksServer(rc, domain) ==
    /\ respect_robots
    /\ domain \notin rc.failed_domains
    /\ domain \notin DOMAIN rc.robots_cache

\* the end of the loop body, download_file having returned dl; links is
\* what parse_url returns for the saved page, which the code calls when
\* depth < max_depth, and again is the second can_fetch, which the code
\* calls when dl.ret is None
AfterDownload(normalized_url, depth, seen, links, dl, again) ==
    LET saved == dl.ret # None
        outcome == IF saved THEN "saved" ELSE OutcomeOfNone(again.ret)
    IN  /\ visited' = seen
        /\ files' = dl.files
        /\ rate_limiter' = dl.domain_last_request
        /\ attempts' = Append(attempts,
                              [url |-> normalized_url, depth |-> depth,
                               doc_id |-> doc_id, allowed |-> dl.allowed,
                               saved |-> saved,
                               links |-> links])
        /\ last' = [op |-> outcome, url |-> normalized_url, depth |-> depth]
        /\ IF saved
           THEN /\ crawled_count' = crawled_count + 1
                /\ url_queue' =
                      IF ShouldExpand(depth, max_depth)
                      THEN Enqueue(popleft(url_queue), links, seen, depth)
                      ELSE popleft(url_queue)
                /\ doc_id' = NextDocId(doc_id)
                /\ robot_checker' = dl.rc
                /\ requests' = requests \o dl.reqs
                /\ now' = dl.now
                /\ UNCHANGED <<failed_count, blocked_count>>
           ELSE /\ url_queue' = popleft(url_queue)
                /\ robot_checker' = again.rc
                /\ requests' = requests \o dl.reqs \o again.reqs
                /\ now' = again.now
                /\ blocked_count' =
                      blocked_count + (IF outcome = "blocked" THEN 1 ELSE 0)
                /\ failed_count' =
                      failed_count + (IF outcome = "failed" THEN 1 ELSE 0)
                /\ UNCHANGED <<crawled_count, doc_id>>
        /\ UNCHANGED <<nu, call, params, pc>>

\* an iteration that reaches download_file, to the end of the loop body.  The
\* servers' answers are drawn only where the code asks for them.  The call
\* of download_file is taken in its two halves, can_fetch and AfterGate, so
\* that the answer of the gate is there when the page's answers are drawn.
Crawl ==
    /\ Running
    /\ Head1[2] <= max_depth
    /\ \E normalized_url \in {normalize_url(Head1[1])} :
       /\ normalized_url # None
       /\ normalized_url \notin visited
       /\ DomainAllowed(same_domain_only, seed_domains, normalized_url)
       /\ \E asks \in {AsksServer(robot_checker, OriginOf(normalized_url))} :
          \E reply \in IF asks THEN RobotsReplies ELSE {"rules_open"} :
          \E rlat \in IF asks THEN Latencies ELSE {0} :
          \E cf \in {can_fetch(robot_checker, respect_robots,
                               normalized_url, reply, rlat, now)} :
          \E gate \in {cf.ret} :
          \E fetch \in IF gate THEN FetchOutcomes ELSE {"ok"} :
          \E flat \in IF gate THEN Latencies ELSE {0} :
          \E page \in IF gate /\ fetch = "ok" THEN Pages ELSE {<<>>} :
          \E dl \in {AfterGate(normalized_url, doc_id, rate_limiter,
                               delay_between_requests, files,
                               [reply |-> reply, rlat |-> rlat,
                                fetch |-> fetch, flat |-> flat], cf)} :
          \E again \in {can_fetch(dl.rc, respect_robots, normalized_url,
                                  reply, rlat, dl.now)} :
          \E links \in {IF dl.ret # None /\ ShouldExpand(Head1[2], max_depth)
                         THEN parse_url(page, normalized_url)
                         ELSE <<>>} :
             AfterDownload(normalized_url, Head1[2],
                           MarkVisited(visited, normalized_url), links, dl,
                           again)

\* the loop condition fails (or the queue was empty at the call): bfs returns
Finish ==
    /\ pc = "loop"
    /\ ~LoopGuard(url_queue, crawled_count, max_urls)
    /\ pc' = "done"
    /\ last' = [op |-> "finish", url |-> None, depth |-> 0]
    /\ UNCHANGED <<nu, call, params, url_queue, visited, doc_id, crawled_count,
                   failed_count, blocked_count, robot_checker, rate_limiter,
                   files, now, requests, attempts>>

Next ==
    \/ SkipDepth
    \/ SkipMalformed
    \/ SkipVisited
    \/ SkipDomain
    \/ Crawl
    \/ Finish

Spec == Init /\ [][Next]_vars

\* bfs is one thread that runs to its end: an iteration that can be taken is
\* taken, every request it makes returns (timeout=15 at line 154, and the
\* socket timeout of line 78 for robots.txt)
FairSpec == Spec /\ WF_vars(Next)

(***************************************************************************)
(* normalize_url called on its own.  The arguments are every str made of a *)
(* scheme part, an authority part, a path, a query part and a fragment     *)
(* part from the sets below; no run of bfs is going on.                    *)
(***************************************************************************)
SchemeParts == {<<>>, <<"h", "t", "t", "p", ":">>,
                <<"h", "t", "t", "p", "s", ":">>, <<"H", "t", "t", "p", ":">>,
                <<"f", "t", "p", ":">>}
AuthorityParts == {<<>>, <<"/", "/">>, <<"/", "/", "a">>, <<"/", "/", ":">>,
                   <<"/", "/", "[", "a">>}
PathParts == {<<>>, <<"/">>, <<"/", "x">>, <<"/", "x", "/">>,
              <<"/", "x", "/", "/">>, <<"/", "x", ";", "p">>}
QueryParts == {<<>>, <<"?">>, <<"?", "q">>, <<"?", "q", "/">>}
FragmentParts == {<<>>, <<"#", "f">>, <<"#", "g">>}

Arguments ==
    {s \o a \o p \o q \o f : s \in SchemeParts, a \in AuthorityParts,
                             p \in PathParts, q \in QueryParts,
                             f \in FragmentParts}

\* the position of the first "?" or "#" of url, or one past its end
PathEnd(url) ==
    LET ends == {i \in 1..Len(url) : url[i] \in {"?", "#"}}
    IN  IF ends = {} THEN Len(url) + 1
        ELSE CHOOSE i \in ends : \A j \in ends : i <= j

\* the URLs that differ from url by their fragment only
FragmentTwins(url) ==
    {v \in {SplitAt(url, "#").head \o f : f \in FragmentParts} :
        /\ v # url
        /\ ~ParseRaises(v)
        /\ [urlparse(v) EXCEPT !.fragment = <<>>]
             = [urlparse(url) EXCEPT !.fragment = <<>>]}

\* the URLs that are url with one more slash at the end of its path
SlashTwins(url) ==
    {v \in {Upto(url, PathEnd(url)) \o <<"/">> \o From(url, PathEnd(url))} :
        /\ ~ParseRaises(v)
        /\ urlparse(v) = [urlparse(url) EXCEPT !.path = @ \o <<"/">>]}

Idle ==
    /\ seeds = <<>>
    /\ max_urls = 1
    /\ max_depth = 0
    /\ delay_between_requests = 0
    /\ same_domain_only = FALSE
    /\ respect_robots = FALSE
    /\ url_queue = <<>>
    /\ seed_domains = {}
    /\ visited = {}
    /\ doc_id = 0
    /\ crawled_count = 0
    /\ failed_count = 0
    /\ blocked_count = 0
    /\ robot_checker = [robots_cache |-> EmptyDict, failed_domains |-> {}]
    /\ rate_limiter = EmptyDict
    /\ files = EmptyDict
    /\ now = 0
    /\ pc = "idle"
    /\ requests = <<>>
    /\ attempts = <<>>
    /\ last = [op |-> "start", url |-> None, depth |-> 0]

run == <<params, url_queue, visited, doc_id, crawled_count, failed_count,
         blocked_count, robot_checker, rate_limiter, files, now, pc,
         requests, attempts, last>>

NormalizeInit ==
    /\ Idle
    /\ nu_pc = "call"
    /\ nu_arg \in Arguments
    /\ nu_ret = None
    /\ nu_twin = None
    /\ nu_twin_ret = None
    /\ nu_again = None
    /\ call_pc = "off"
    /\ call_arg = None
    /\ call_ret = None

\* normalize_url(nu_arg)
NormalizeUrl ==
    /\ nu_pc = "call"
    /\ nu_ret' = normalize_url(nu_arg)
    /\ nu_pc' = "returned"
    /\ UNCHANGED <<run, call, nu_arg, nu_twin, nu_twin_ret, nu_again>>

\* normalize_url(normalize_url(nu_arg))
NormalizeAgain ==
    /\ nu_pc = "returned"
    /\ nu_ret # None
    /\ nu_again' = normalize_url(nu_ret)
    /\ nu_pc' = "again"
    /\ UNCHANGED <<run, call, nu_arg, nu_ret, nu_twin, nu_twin_ret>>

\* normalize_url of a URL that differs from nu_arg by its fragment
NormalizeFragmentTwin ==
    /\ nu_pc = "returned"
    /\ \E v \in FragmentTwins(nu_arg) :
          /\ nu_twin' = v
          /\ nu_twin_ret' = normalize_url(v)
    /\ nu_pc' = "fragment_twin"
    /\ UNCHANGED <<run, call, nu_arg, nu_ret, nu_again>>

\* normalize_url of nu_arg with one more slash at the end of its path
NormalizeSlashTwin ==
    /\ nu_pc = "returned"
    /\ \E v \in SlashTwins(nu_arg) :
          /\ nu_twin' = v
          /\ nu_twin_ret' = normalize_url(v)
    /\ nu_pc' = "slash_twin"
    /\ UNCHANGED <<run, call, nu_arg, nu_ret, nu_again>>

NormalizeNext ==
    \/ NormalizeUrl
    \/ NormalizeAgain
    \/ NormalizeFragmentTwin
    \/ NormalizeSlashTwin

NormalizeSpec == NormalizeInit /\ [][NormalizeNext]_vars

(***************************************************************************)
(* load_urls_to_deque, parse_url and download_file called on their own.    *)
(***************************************************************************)
TextHtml == <<"t", "e", "x", "t", "/", "h", "t", "m", "l">>

\* the Content-Type headers a server can send; None is a response without
\* the header
ContentTypes ==
    {None,
     <<"t", "e", "x", "t", "/", "h", "t", "m", "l">>,
     <<"t", "e", "x", "t", "/", "h", "t", "m", "l", ";", "q">>,
     <<"T", "e", "x", "t", "/", "H", "t", "m", "l">>,
     <<"t", "e", "x", "t", "/", "p", "l", "a", "i", "n">>,
     <<"t", "e", "x", "t", "/", "p", "l", "a", "i", "n", ";", "x", "=", "t", "e", "x", "t", "/", "h", "t", "m", "l">>,
     <<"i", "m", "a", "g", "e", "/", "p", "n", "g">>,
     <<"a", "p", "p", "l", "i", "c", "a", "t", "i", "o", "n", "/", "j", "s", "o", "n">>,
     <<"t", "e", "x", "t", "/", "h", "t", "m">>}

\* the status codes of the responses requests.get can return once it has
\* followed the redirects
StatusCodes == {200, 203, 300, 304, 404, 500}

Responses == [status : StatusCodes, content_type : ContentTypes]

\* response.raise_for_status() raises HTTPError
RaisesForStatus(response) == 400 <= response.status /\ response.status < 600

\* 'text/html' in response.headers.get('content-type', '').lower()
IsHtml(response) == Contains(Lower(response.content_type), TextHtml)

\* how the lines 154-161 of download_file end on a response
ResponseOutcome(response) ==
    IF RaisesForStatus(response) THEN "http_error"
    ELSE IF ~IsHtml(response) THEN "non_html"
    ELSE "ok"

\* download_file(UrlX, doc_id 0) with a checker that does not respect
\* robots.txt, a fresh limiter and an empty save directory, the server
\* answering with response
DownloadResponse(response) ==
    download_file(UrlX, 0, EmptyDict, 0,
                  [robots_cache |-> EmptyDict, failed_domains |-> {}], FALSE,
                  EmptyDict,
                  [reply |-> "rules_open", rlat |-> 0,
                   fetch |-> ResponseOutcome(response), flat |-> 0], 0)

\* the largest number of anchors of a page handed to parse_url
MaxAnchors == 3

\* the href attributes an anchor of such a page can have
AnchorHrefs ==
    {UrlX, UrlXFrag, UrlP, UrlFtp, UrlMail, UrlBad,
     <<"/", "x", "#", "g">>,
     <<"#", "f">>,
     <<"j", "a", "v", "a", "s", "c", "r", "i", "p", "t", ":", "a">>,
     <<"t", "e", "l", ":", "a">>,
     <<"d", "a", "t", "a", ":", "a">>}

\* the files handed to parse_url: the hrefs of the anchors of a file that
\* can be read, or a file that open() or read() raises on
HtmlFiles ==
    [readable : {TRUE},
     hrefs : UNION {[1..n -> AnchorHrefs] : n \in 0..MaxAnchors}]
    \cup {[readable |-> FALSE, hrefs |-> <<>>]}

\* parse_url(file_path, base_url) on the file at file_path
ParseFile(file, base_url) ==
    IF ~file.readable THEN <<>> ELSE parse_url(file.hrefs, base_url)

\* the largest number of lines of a seed file handed to load_urls_to_deque
MaxLines == 2

\* the lines of such a file: whitespace or nothing, then a URL, a comment,
\* a URL with a "#" or a blank inside, or nothing, then whitespace and the
\* newline
SeedLines ==
    {lead \o body \o trail :
        lead \in {<<>>, <<" ">>},
        body \in {<<>>, UrlRoot, UrlBY, UrlXFrag,
                  <<"#", "c">>,
                  <<"#", " ", "h", "t", "t", "p", ":", "/", "/", "a", "/">>,
                  <<"h", "t", "t", "p", ":", "/", "/", "a", "/", " ", "b">>},
        trail \in {<<"\n">>, <<"\t", "\n">>}}

\* the seed files: the lines of a file that is there, or a missing file
SeedFilesOnDisk ==
    [found : {TRUE}, lines : UNION {[1..n -> SeedLines] : n \in 0..MaxLines}]
    \cup {[found |-> FALSE, lines |-> <<>>]}

\* the states a RobotChecker can be in at a call of can_fetch: new, with
\* the rules of OriginA in the cache, or with OriginA among the origins
\* whose robots.txt could not be read
CheckerStates ==
    {[robots_cache |-> EmptyDict, failed_domains |-> {}],
     [robots_cache |-> StoreParser(EmptyDict, OriginA, rp_read("rules_private")),
      failed_domains |-> {}],
     [robots_cache |-> EmptyDict, failed_domains |-> {OriginA}]}

\* socket.getdefaulttimeout() at the call: None unless the program set one
DefaultTimeouts == {None, <<30>>}

\* the calls of can_fetch: the checker, the URL, the server's answer to the
\* robots.txt request, and the default timeout at the call
CanFetchCalls ==
    [rc : CheckerStates, respect_robots : BOOLEAN, url : {UrlX, UrlP, UrlBY},
     reply : RobotsReplies, old_timeout : DefaultTimeouts]

CallInit ==
    /\ Idle
    /\ nu_pc = "off"
    /\ nu_arg = None
    /\ nu_ret = None
    /\ nu_twin = None
    /\ nu_twin_ret = None
    /\ nu_again = None
    /\ \/ call_pc = "download_file" /\ call_arg \in Responses
       \/ call_pc = "parse_url" /\ call_arg \in HtmlFiles
       \/ call_pc = "load_urls_to_deque" /\ call_arg \in SeedFilesOnDisk
       \/ call_pc = "can_fetch" /\ call_arg \in CanFetchCalls
    /\ call_ret = None

CallDownloadFile ==
    /\ call_pc = "download_file"
    /\ call_ret' = DownloadResponse(call_arg)
    /\ call_pc' = "download_file returned"
    /\ UNCHANGED <<run, nu, call_arg>>

\* parse_url(file_path, UrlRoot)
CallParseUrl ==
    /\ call_pc = "parse_url"
    /\ call_ret' = ParseFile(call_arg, UrlRoot)
    /\ call_pc' = "parse_url returned"
    /\ UNCHANGED <<run, nu, call_arg>>

\* load_urls_to_deque(file_path)
CallLoadUrls ==
    /\ call_pc = "load_urls_to_deque"
    /\ call_ret' = LoadSeedFile(call_arg)
    /\ call_pc' = "load_urls_to_deque returned"
    /\ UNCHANGED <<run, nu, call_arg>>

\* robot_checker.can_fetch(url)
CallCanFetch ==
    /\ call_pc = "can_fetch"
    /\ \E cf \in {can_fetch(call_arg.rc, call_arg.respect_robots, call_arg.url,
                             call_arg.reply, 0, 0)} :
          call_ret' = [ret |-> cf.ret, rc |-> cf.rc, reqs |-> cf.reqs,
                       default_timeout |->
                           DefaultTimeoutAfter(call_arg.rc,
                                               call_arg.respect_robots,
                                               call_arg.url, call_arg.reply,
                                               call_arg.old_timeout)]
    /\ call_pc' = "can_fetch returned"
    /\ UNCHANGED <<run, nu, call_arg>>

CallNext ==
    \/ CallDownloadFile
    \/ CallParseUrl
    \/ CallLoadUrls
    \/ CallCanFetch

CallSpec == CallInit /\ [][CallNext]_vars


(***************************************************************************)
(* What the claims speak of                                                *)
(***************************************************************************)
IsPage(r) == r.kind = "page"
IsRobots(r) == r.kind = "robots"
IsSaved(a) == a.saved

\* the documents persisted so far, in the order of their download
Documents == SelectSeq(attempts, IsSaved)

\* the robots.txt replies that are failures of the robots check
FailureReplies == {"http_404", "http_403", "http_500", "net_error"}

\* urlparse(url).hostname: the netloc without userinfo and port, lowercased
Hostname(url) ==
    LET netloc == urlparse(url).netloc
        hostport == From(netloc, RFind(netloc, "@") + 1)
        colon == Find(hostport, ":", 1)
    IN  Lower(IF colon = 0 THEN hostport ELSE Upto(hostport, colon))

SeedHosts == {Hostname(seeds[i]) : i \in 1..Len(seeds)}

\* the requests a step issues
Issued == SubSeq(requests', Len(requests) + 1, Len(requests'))

(***************************************************************************)
(* C1: download_file is called at most once per normalized URL, a page     *)
(* request is issued at most once per normalized URL, and no normalized    *)
(* URL is saved under two doc_ids; so a URL whose download failed or was   *)
(* blocked is not attempted again.                                         *)
(***************************************************************************)
C1_NoDuplicateFetch ==
    /\ \A i, j \in 1..Len(attempts) :
          i # j => attempts[i].url # attempts[j].url
    /\ \A i, j \in 1..Len(requests) :
          (i # j /\ IsPage(requests[i]) /\ IsPage(requests[j]))
             => requests[i].url # requests[j].url
    /\ \A i, j \in DOMAIN files : i # j => files[i] # files[j]

\* a URL whose download did not succeed was popped again, and discarded
C1_Witness ==
    /\ last.op = "skip_visited"
    /\ \E i \in 1..Len(attempts) :
          /\ attempts[i].url = normalize_url(last.url)
          /\ ~attempts[i].saved

(***************************************************************************)
(* C2: with max_depth >= 0 and the seeds at depth 0, every entry of the    *)
(* queue has depth <= max_depth, and every document was saved from an      *)
(* entry of depth <= max_depth.                                            *)
(***************************************************************************)
C2_DepthBound ==
    max_depth >= 0 =>
        /\ \A i \in 1..Len(url_queue) : url_queue[i][2] <= max_depth
        /\ \A i \in 1..Len(Documents) : Documents[i].depth <= max_depth

\* a child waits in the queue at the deepest level while a document of that
\* level has been saved
C2_Witness ==
    /\ max_depth >= 1
    /\ \E i \in 1..Len(url_queue) : url_queue[i][2] = max_depth
    /\ \E i \in 1..Len(Documents) : Documents[i].depth = max_depth

(***************************************************************************)
(* C3: crawled_count never exceeds max_urls, and once it equals max_urls   *)
(* no entry is popped and no request is issued any more.                   *)
(***************************************************************************)
C3_BudgetBound ==
    /\ [](crawled_count <= max_urls)
    /\ [][crawled_count = max_urls =>
             /\ url_queue' = url_queue
             /\ requests' = requests
             /\ attempts' = attempts]_vars

\* the run ended on its budget with entries left in the queue
C3_Witness ==
    /\ pc = "done"
    /\ crawled_count = max_urls
    /\ url_queue # <<>>

(***************************************************************************)
(* C4: any two page requests to the same origin are issued at least        *)
(* delay_between_requests apart, also when the earlier one failed.         *)
(***************************************************************************)
C4_PageSpacing ==
    \A i, j \in 1..Len(requests) :
        (/\ i < j
         /\ IsPage(requests[i])
         /\ IsPage(requests[j])
         /\ requests[i].origin = requests[j].origin)
           => requests[j].time - requests[i].time >= delay_between_requests

\* with a positive delay, a page request followed a failed page request to
\* the same origin
C4_Witness ==
    /\ delay_between_requests > 0
    /\ \E i, j \in 1..Len(attempts) :
          /\ i < j
          /\ OriginOf(attempts[i].url) = OriginOf(attempts[j].url)
          /\ attempts[i].allowed
          /\ ~attempts[i].saved
          /\ attempts[j].allowed

(***************************************************************************)
(* C5: any two requests to the same origin, the robots.txt request of      *)
(* can_fetch included, are issued at least delay_between_requests apart.   *)
(***************************************************************************)
C5_AllRequestSpacing ==
    \A i, j \in 1..Len(requests) :
        (i < j /\ requests[i].origin = requests[j].origin)
           => requests[j].time - requests[i].time >= delay_between_requests

(***************************************************************************)
(* C6: when the robots.txt request of an origin failed (no answer, an HTTP *)
(* error status, no robots.txt), can_fetch allows every URL of that origin.*)
(***************************************************************************)
C6_RobotsFailOpen ==
    \A i \in 1..Len(attempts) :
        (\E k \in 1..Len(requests) :
            /\ IsRobots(requests[k])
            /\ requests[k].origin = OriginOf(attempts[i].url)
            /\ requests[k].reply \in FailureReplies)
           => attempts[i].allowed

(***************************************************************************)
(* C7: at most one robots.txt request is issued per origin in a run,       *)
(* whatever its outcome and however many URLs of the origin are checked.   *)
(***************************************************************************)
C7_OneRobotsRequestPerOrigin ==
    \A i, j \in 1..Len(requests) :
        (i < j /\ IsRobots(requests[i]) /\ IsRobots(requests[j]))
           => requests[i].origin # requests[j].origin

\* two URLs of one origin went through the robots check, the first of them
\* twice (in download_file, and again in bfs when download_file returned None)
C7_Witness ==
    /\ respect_robots
    /\ \E i, j \in 1..Len(attempts) :
          /\ i < j
          /\ OriginOf(attempts[i].url) = OriginOf(attempts[j].url)
          /\ ~attempts[i].saved
          /\ \E k \in 1..Len(requests) :
                /\ IsRobots(requests[k])
                /\ requests[k].origin = OriginOf(attempts[i].url)

(***************************************************************************)
(* C8: when the robots check is on and the origin's parser disallows the   *)
(* URL an iteration hands to download_file, the iteration issues no page   *)
(* request, saves nothing, leaves the rate limiter alone, enqueues         *)
(* nothing, counts one more blocked URL and no more failed one, and has    *)
(* the URL in visited; and a run from the seed http://a/p under            *)
(* "Disallow: /p" ends with no document and blocked = 1.                   *)
(***************************************************************************)
C8_BlockedEffects ==
    /\ [][\A u \in {attempts'[k].url : k \in (Len(attempts) + 1)..Len(attempts')} :
             (/\ respect_robots
              /\ OriginOf(u) \in DOMAIN robot_checker'.robots_cache
              /\ ~rp_can_fetch(robot_checker'.robots_cache[OriginOf(u)], u))
                => /\ \A k \in 1..Len(Issued) : ~IsPage(Issued[k])
                   /\ files' = files
                   /\ rate_limiter' = rate_limiter
                   /\ url_queue' = Tail(url_queue)
                   /\ blocked_count' = blocked_count + 1
                   /\ failed_count' = failed_count
                   /\ crawled_count' = crawled_count
                   /\ doc_id' = doc_id
                   /\ u \in visited']_vars
    /\ []((/\ pc = "done"
           /\ seeds = <<UrlP>>
           /\ max_depth >= 0
           /\ \E k \in 1..Len(requests) :
                 /\ requests[k].origin = OriginA
                 /\ requests[k].reply = "rules_private")
             => /\ files = EmptyDict
                /\ blocked_count = 1
                /\ failed_count = 0
                /\ visited = {UrlP})

\* the run from the seed http://a/p under "Disallow: /p" has ended
C8_Witness ==
    /\ pc = "done"
    /\ seeds = <<UrlP>>
    /\ blocked_count = 1
    /\ \E k \in 1..Len(requests) :
          /\ requests[k].origin = OriginA
          /\ requests[k].reply = "rules_private"

(***************************************************************************)
(* C9: with same_domain_only, popping a URL whose host is the host of no   *)
(* seed leaves visited alone and issues no request and no download, and    *)
(* the host of every URL downloaded or saved is the host of a seed.        *)
(***************************************************************************)
C9_DomainRestriction ==
    /\ [][(/\ same_domain_only
           /\ Running
           /\ Hostname(Head1[1]) \notin SeedHosts)
             => /\ url_queue' = Tail(url_queue)
                /\ visited' = visited
                /\ requests' = requests
                /\ attempts' = attempts
                /\ files' = files]_vars
    /\ [](same_domain_only =>
             /\ \A i \in 1..Len(attempts) :
                   Hostname(attempts[i].url) \in SeedHosts
             /\ \A i \in DOMAIN files : Hostname(files[i]) \in SeedHosts)

\* a link to another host was popped and discarded after a document was saved
C9_Witness ==
    /\ last.op = "skip_domain"
    /\ Hostname(last.url) \notin SeedHosts
    /\ Len(Documents) > 0

C11_Idempotent == nu_pc = "again" => nu_again = nu_ret

(***************************************************************************)
(* C12: two URLs that normalize_url accepts and that differ only by their  *)
(* fragment, or only by a trailing slash on the path, normalize to the     *)
(* same string.                                                            *)
(***************************************************************************)
C12_TwinsCollapse ==
    (nu_pc \in {"fragment_twin", "slash_twin"}
        /\ nu_ret # None /\ nu_twin_ret # None)
    => nu_twin_ret = nu_ret

(***************************************************************************)
(* C13: normalize_url returns None exactly when urlparse raises on the     *)
(* argument, or the argument has no scheme, or it has an empty authority   *)
(* (netloc), or its scheme is neither http nor https; on every other       *)
(* argument it returns a str, and the exception of urlparse does not       *)
(* escape.                                                                 *)
(***************************************************************************)
C13_RejectsExactly ==
    nu_pc = "returned" =>
        (nu_ret = None <=>
            \/ ParseRaises(nu_arg)
            \/ urlparse(nu_arg).scheme = <<>>
            \/ urlparse(nu_arg).netloc = <<>>
            \/ urlparse(nu_arg).scheme \notin HttpSchemes)

\* normalize_url has swallowed the ValueError of urlparse and returned None
C13_Witness ==
    /\ nu_pc = "returned"
    /\ ParseRaises(nu_arg)
    /\ urlparse(nu_arg).scheme \in HttpSchemes
    /\ nu_ret = None

\* C13 as stated: None exactly when the argument cannot be parsed, has no
\* scheme, has no host, or has a scheme other than http and https
C13_RejectsNoHost ==
    nu_pc = "returned" =>
        (nu_ret = None <=>
            \/ ParseRaises(nu_arg)
            \/ urlparse(nu_arg).scheme = <<>>
            \/ Hostname(nu_arg) = <<>>
            \/ urlparse(nu_arg).scheme \notin HttpSchemes)

(***************************************************************************)
(* C14: for every URL normalize_url accepts, the result is the scheme,     *)
(* "://", the authority, the path with one trailing slash removed unless   *)
(* the path is just "/", and, when the query is not empty, "?" and the     *)
(* query unchanged; the fragment is not part of it.                        *)
(***************************************************************************)
C14_CanonicalForm ==
    (nu_pc = "returned" /\ nu_ret # None) =>
        \E parsed \in {urlparse(nu_arg)} :
            nu_ret = parsed.scheme \o <<":", "/", "/">> \o parsed.netloc
                     \o (IF EndsWith(parsed.path, "/") /\ parsed.path # <<"/">>
                         THEN Upto(parsed.path, Len(parsed.path))
                         ELSE parsed.path)
                     \o (IF parsed.query # <<>> THEN <<"?">> \o parsed.query
                         ELSE <<>>)

\* the URLs of the queue that an iteration would hand to download_file
Crawlable ==
    {normalize_url(url_queue[i][1]) : i \in {j \in 1..Len(url_queue) :
        /\ url_queue[j][2] <= max_depth
        /\ normalize_url(url_queue[j][1]) # None
        /\ DomainAllowed(same_domain_only, seed_domains,
                         normalize_url(url_queue[j][1]))}}

(***************************************************************************)
(* C15: a call of bfs has ended only with the queue empty or crawled_count *)
(* at max_urls, whatever failed on the way; and when it has ended with     *)
(* every download a success and more than max_urls crawlable URLs          *)
(* discovered, crawled_count is max_urls and the queue is not empty.       *)
(***************************************************************************)
C15_StopsOnlyOnExhaustion ==
    /\ pc # "loop" => (url_queue = <<>> \/ crawled_count = max_urls)
    /\ (/\ pc # "loop"
        /\ \A i \in 1..Len(attempts) : attempts[i].saved
        /\ Cardinality(visited \cup Crawlable) > max_urls)
       => (crawled_count = max_urls /\ url_queue # <<>>)

(***************************************************************************)
(* C16: every call of bfs terminates: with every request returning, the    *)
(* loop is left after finitely many iterations, also when max_urls is more *)
(* than the URLs there are to crawl and when pages link back to pages      *)
(* already visited.                                                        *)
(***************************************************************************)
C16_Terminates == <>(pc # "loop")

\* a run over pages that link back to the seed has ended on the empty queue,
\* short of its budget
C16_Witness ==
    /\ pc = "done"
    /\ url_queue = <<>>
    /\ crawled_count < max_urls
    /\ seeds = <<UrlRoot>>
    /\ \E i \in 1..Len(attempts) :
          attempts[i].url = UrlP /\ attempts[i].depth = 1

(***************************************************************************)
(* C17: with every seed at depth 0, the queue is at all times sorted by    *)
(* depth, smallest at the head, and the entries are popped in              *)
(* non-decreasing order of depth.                                          *)
(***************************************************************************)
C17_DepthOrder ==
    /\ [](\A i, j \in 1..Len(url_queue) :
            i < j => url_queue[i][2] <= url_queue[j][2])
    /\ [][pc' = "loop" => last'.depth >= last.depth]_vars

\* entries of two depths wait in the queue, those of the smaller depth first
C17_Witness ==
    /\ pc = "loop"
    /\ \E i, j \in 1..Len(url_queue) :
          i < j /\ url_queue[i][2] < url_queue[j][2]
    /\ last.op = "saved"

\* the entries a step appends to the queue, after popping its head
Appended == SubSeq(url_queue', Len(url_queue), Len(url_queue'))

(***************************************************************************)
(* C18: an iteration appends entries to the queue only when it saved the   *)
(* page of an entry of depth below max_depth; each appended entry has the  *)
(* depth of that entry plus one and a URL that is not in visited at that   *)
(* moment.  An entry fetched at depth max_depth appends nothing, and with  *)
(* max_depth = 0 only seeds are attempted and the queue never grows.       *)
(***************************************************************************)
C18_ExpansionRule ==
    /\ [][url_queue' # url_queue =>
            /\ SubSeq(url_queue', 1, Len(url_queue) - 1) = Tail(url_queue)
            /\ Appended # <<>> =>
                 /\ last'.op = "saved"
                 /\ crawled_count' = crawled_count + 1
                 /\ last'.depth = Head1[2]
                 /\ Head1[2] < max_depth
                 /\ \A k \in 1..Len(Appended) :
                       /\ Appended[k][2] = Head1[2] + 1
                       /\ Appended[k][1] \notin visited'
                       /\ Appended[k][1] \notin visited]_vars
    /\ [](max_depth = 0 =>
            /\ Len(url_queue) <= Len(seeds)
            /\ \A i \in 1..Len(attempts) :
                  /\ attempts[i].depth = 0
                  /\ \E k \in 1..Len(seeds) :
                        normalize_url(seeds[k]) = attempts[i].url)

\* a page saved at a depth below max_depth has put its links, one deeper
\* and not yet visited, at the tail of the queue
C18_Witness ==
    /\ last.op = "saved"
    /\ last.depth < max_depth
    /\ url_queue # <<>>
    /\ url_queue[Len(url_queue)][2] = last.depth + 1
    /\ url_queue[Len(url_queue)][1] \notin visited

(***************************************************************************)
(* C19: the URL an iteration hands to download_file is in visited when its *)
(* robots check and its page request are issued, whether the download then *)
(* succeeds, fails or is blocked; and visited never loses an element.      *)
(***************************************************************************)
C19_VisitedBeforeFetch ==
    /\ [][/\ visited \subseteq visited'
          /\ Len(attempts') > Len(attempts) =>
                /\ attempts'[Len(attempts')].url \in visited'
                /\ \A k \in 1..Len(Issued) :
                      /\ Issued[k].kind = "page" => Issued[k].url \in visited'
                      /\ Issued[k].kind = "robots" =>
                            Issued[k].origin
                               = OriginOf(attempts'[Len(attempts')].url)]_vars
    /\ [](\A i \in 1..Len(attempts) : attempts[i].url \in visited)

\* a URL whose download failed, and one that was blocked, are in visited
\* after a later iteration
C19_Witness ==
    /\ Len(attempts) >= 2
    /\ \E i \in 1..(Len(attempts) - 1) :
          attempts[i].allowed /\ ~attempts[i].saved
    /\ ~attempts[Len(attempts)].allowed
    /\ \A i \in 1..Len(attempts) : attempts[i].url \in visited

(***************************************************************************)
(* C20: when download_file returns None for a URL that robots.txt permits  *)
(* (the page request timed out, failed on the network, came back with an   *)
(* HTTP error status or without HTML, or the save failed), failed_count    *)
(* grows by one, crawled_count, blocked_count and doc_id keep their        *)
(* values, the queue only loses its head, the URL is in visited, and the   *)
(* loop goes on.                                                           *)
(***************************************************************************)
C20_FailureEffects ==
    [][(/\ Len(attempts') > Len(attempts)
        /\ attempts'[Len(attempts')].allowed
        /\ ~attempts'[Len(attempts')].saved)
       => /\ failed_count' = failed_count + 1
          /\ crawled_count' = crawled_count
          /\ blocked_count' = blocked_count
          /\ doc_id' = doc_id
          /\ url_queue' = Tail(url_queue)
          /\ attempts'[Len(attempts')].url \in visited'
          /\ \E k \in 1..Len(Issued) :
                /\ Issued[k].kind = "page"
                /\ Issued[k].url = attempts'[Len(attempts')].url
          /\ pc' = "loop"]_vars

\* a download has failed after its page request, and the run has gone on to
\* save the next page under the document number the failure left unused
C20_Witness ==
    /\ Len(attempts) >= 2
    /\ attempts[1].allowed /\ ~attempts[1].saved
    /\ attempts[2].saved /\ attempts[2].doc_id = 0
    /\ failed_count = 1
    /\ crawled_count = 1
    /\ attempts[1].url \in visited

(***************************************************************************)
(* C21: download_file writes the page exactly when the status of the       *)
(* response is in the success range (2xx) and its Content-Type begins with *)
(* text/html; on every other response, one with text/html later in the     *)
(* value or without the header included, it returns None and writes        *)
(* nothing.                                                                *)
(***************************************************************************)
C21_PersistsOnlyHtml ==
    call_pc = "download_file returned" =>
        /\ call_ret.ret # None <=>
              /\ call_arg.status \in 200..299
              /\ StartsWith(Lower(call_arg.content_type), TextHtml)
        /\ call_ret.ret = None => call_ret.files = EmptyDict

\* the link the anchor at position k of the file of call_arg stands for
AnchorLink(k) == normalize_url(urljoin(UrlRoot, call_arg.hrefs[k]))

\* the anchor at position k has an href under javascript:, mailto:, tel:,
\* data: or "#"
AnchorSkipped(k) ==
    \E prefix \in {<<"j", "a", "v", "a", "s", "c", "r", "i", "p", "t", ":">>,
                   <<"m", "a", "i", "l", "t", "o", ":">>,
                   <<"t", "e", "l", ":">>, <<"d", "a", "t", "a", ":">>,
                   <<"#">>} : StartsWith(call_arg.hrefs[k], prefix)

\* the anchors that parse_url keeps: neither under one of the five skipped
\* prefixes nor rejected by normalize_url
KeptAnchors ==
    {k \in 1..Len(call_arg.hrefs) :
        /\ ~AnchorSkipped(k)
        /\ ~ParseRaises(call_arg.hrefs[k])
        /\ AnchorLink(k) # None}

\* the position of the first kept anchor that stands for link
FirstAnchor(link) ==
    CHOOSE k \in KeptAnchors :
        AnchorLink(k) = link /\ \A j \in KeptAnchors : AnchorLink(j) = link => k <= j

\* the file cannot be read, or urljoin raises on one of its hrefs
ParseFails ==
    \/ ~call_arg.readable
    \/ \E k \in 1..Len(call_arg.hrefs) :
          ParseRaises(call_arg.hrefs[k]) /\ ~AnchorSkipped(k)

(***************************************************************************)
(* C22: parse_url returns the links of the kept anchors of the page, each  *)
(* once and in the order of its first anchor; every element is a result of *)
(* normalize_url with scheme http or https; anchors under javascript:,     *)
(* mailto:, tel:, data: or "#" give nothing, anchors that differ only by   *)
(* their fragment give one element, and a parse failure gives [].          *)
(***************************************************************************)
C22_ParseUrlResult ==
    call_pc = "parse_url returned" =>
        IF ParseFails THEN call_ret = <<>>
        ELSE /\ \A i, j \in 1..Len(call_ret) : i # j => call_ret[i] # call_ret[j]
             /\ {call_ret[i] : i \in 1..Len(call_ret)}
                   = {AnchorLink(k) : k \in KeptAnchors}
             /\ \A i \in 1..Len(call_ret) :
                   /\ call_ret[i] # None
                   /\ normalize_url(call_ret[i]) # None
                   /\ urlparse(call_ret[i]).scheme \in HttpSchemes
             /\ \A i, j \in 1..Len(call_ret) :
                   i < j => FirstAnchor(call_ret[i]) < FirstAnchor(call_ret[j])

\* a page with two anchors that differ by their fragment around a mailto:
\* anchor, and a second link, has given two links in page order
C22_Witness ==
    /\ call_pc = "parse_url returned"
    /\ call_arg.hrefs = <<UrlXFrag, UrlMail, UrlX>> \/ call_arg.hrefs = <<UrlP, UrlXFrag, UrlX>>
    /\ call_ret \in {<<UrlX>>, <<UrlP, UrlX>>}
    /\ Len(call_ret) = 2

\* the page request issued in the step, if there is one: the last of the
\* requests the step added
IssuesPage ==
    /\ Len(requests') > Len(requests)
    /\ IsPage(requests'[Len(requests')])

(***************************************************************************)
(* C23: a step that issues a page request to an origin sets the limiter's  *)
(* time of that origin to the time the limiter returned at (the time of    *)
(* the request), whatever the request's outcome, and leaves the time of    *)
(* every other origin as it was; the limiter sleeps only on the earlier    *)
(* request to the same origin, never on one to a different origin; a step  *)
(* without a page request leaves the limiter as it was.                    *)
(***************************************************************************)
C23_LimiterFrame ==
    [][IF IssuesPage
       THEN LET r == requests'[Len(requests')]
                asked == Len(requests') - Len(requests) = 2
            IN  /\ DOMAIN rate_limiter' = DOMAIN rate_limiter \cup {r.origin}
                /\ rate_limiter'[r.origin] = r.time
                /\ \A d \in DOMAIN rate_limiter :
                      d # r.origin => rate_limiter'[d] = rate_limiter[d]
                /\ \/ r.time \in {now + lat :
                                     lat \in IF asked THEN Latencies ELSE {0}}
                   \/ /\ r.origin \in DOMAIN rate_limiter
                      /\ r.time = rate_limiter[r.origin]
                                     + delay_between_requests
       ELSE rate_limiter' = rate_limiter]_vars

\* the limiter slept before a page request that failed, delay_between_requests
\* after the page request before it to the same origin, the request to an
\* other origin that came between them keeping its time
C23_Witness ==
    /\ delay_between_requests > 0
    /\ last.op = "failed"
    /\ \E i, j \in 1..Len(requests) :
          /\ i + 1 < j /\ j = Len(requests)
          /\ IsPage(requests[i]) /\ IsPage(requests[j])
          /\ requests[i].origin = requests[j].origin
          /\ requests[j].time = requests[i].time + delay_between_requests
          /\ rate_limiter[requests[j].origin] = requests[j].time
          /\ \E k \in (i + 1)..(j - 1) :
                /\ IsPage(requests[k])
                /\ requests[k].origin # requests[j].origin
                /\ rate_limiter[requests[k].origin] = requests[k].time
                /\ requests[k].time < requests[j].time

\* url is line without the whitespace around it
IsStripped(url, line) ==
    /\ url # <<>>
    /\ url[1] \notin {" ", "\t", "\n"}
    /\ url[Len(url)] \notin {" ", "\t", "\n"}
    /\ \E a \in 0..Len(line) :
          /\ a + Len(url) <= Len(line)
          /\ SubSeq(line, a + 1, a + Len(url)) = url
          /\ \A i \in (1..a) \cup ((a + Len(url) + 1)..Len(line)) :
                line[i] \in {" ", "\t", "\n"}

\* line is blank, or a comment: its first character after the whitespace
\* is "#"
IsBlankOrComment(line) ==
    \/ \A i \in 1..Len(line) : line[i] \in {" ", "\t", "\n"}
    \/ \E i \in 1..Len(line) :
          /\ line[i] = "#"
          /\ \A j \in 1..(i - 1) : line[j] \in {" ", "\t", "\n"}

\* the lines of the file of call_arg that give an entry
EntryLines == {i \in 1..Len(call_arg.lines) : ~IsBlankOrComment(call_arg.lines[i])}

(***************************************************************************)
(* C24: load_urls_to_deque returns one entry (url, 0) for each line of the *)
(* seed file that is not blank and does not start with "#", url being the  *)
(* line without its surrounding whitespace, in the order of the file;      *)
(* blank lines and comment lines give no entry, and a missing file gives   *)
(* an empty queue.                                                         *)
(***************************************************************************)
C24_LoadUrls ==
    call_pc = "load_urls_to_deque returned" =>
        IF ~call_arg.found THEN call_ret = <<>>
        ELSE /\ Len(call_ret) = Cardinality(EntryLines)
             /\ \A i \in EntryLines :
                   LET n == Cardinality({j \in EntryLines : j <= i})
                   IN  /\ call_ret[n][2] = 0
                       /\ IsStripped(call_ret[n][1], call_arg.lines[i])

\* a file of a comment line and an indented URL line has given one entry
C24_Witness ==
    /\ call_pc = "load_urls_to_deque returned"
    /\ call_arg.found
    /\ Len(call_arg.lines) = 2
    /\ IsBlankOrComment(call_arg.lines[1])
    /\ call_arg.lines[1][1] = "#"
    /\ call_arg.lines[2] = <<" ">> \o UrlRoot \o <<"\t", "\n">>
    /\ call_ret = <<<<UrlRoot, 0>>>>

(***************************************************************************)
(* C25: at the start of every iteration of the loop and when bfs returns,  *)
(* crawled_count + failed_count + blocked_count is the number of URLs in   *)
(* visited.                                                                *)
(***************************************************************************)
C25_CountersPartitionVisited ==
    pc \in {"loop", "done"} =>
        crawled_count + failed_count + blocked_count = Cardinality(visited)

\* bfs returned with a crawled, a failed and a blocked URL
C25_Witness ==
    /\ pc = "done"
    /\ crawled_count >= 1
    /\ failed_count >= 1
    /\ blocked_count >= 1
    /\ Cardinality(visited) = crawled_count + failed_count + blocked_count

\* the URLs the seeds stand for
SeedUrls == {normalize_url(seeds[i]) : i \in 1..Len(seeds)} \ {None}

\* the URLs that a link path of at most k links leads to from a seed, the
\* path running through saved pages only.  The links of a page saved at
\* max_depth are not read, and a path through it is longer than max_depth.
RECURSIVE Within(_)
Within(k) ==
    IF k = 0 THEN SeedUrls
    ELSE LET near == Within(k - 1)
         IN  near \cup UNION {{attempts[i].links[n] : n \in 1..Len(attempts[i].links)} :
                                 i \in {j \in 1..Len(attempts) :
                                           attempts[j].saved /\ attempts[j].url \in near}}

\* the length of the shortest such path to url; -1 when there is none of
\* at most max_depth + 1 links
Distance(url) ==
    LET lengths == {k \in 0..(max_depth + 1) : url \in Within(k)}
    IN  IF lengths = {} THEN -1
        ELSE CHOOSE k \in lengths : \A m \in lengths : k <= m

(***************************************************************************)
(* C26: every URL that bfs fetched was popped at the depth that is its     *)
(* BFS distance, the length of the shortest link path to it from a seed    *)
(* through saved pages.                                                    *)
(***************************************************************************)
C26_DepthIsDistance ==
    \A i \in 1..Len(attempts) :
        attempts[i].allowed => attempts[i].depth = Distance(attempts[i].url)

\* the entry at the head of the queue is one the iteration discards: too
\* deep, not a URL, visited already, or of a host that is not a seed's
HeadDiscarded ==
    /\ pc = "loop"
    /\ url_queue # <<>>
    /\ crawled_count < max_urls
    /\ LET url == url_queue[1][1]
           depth == url_queue[1][2]
       IN  \/ depth > max_depth
           \/ normalize_url(url) = None
           \/ normalize_url(url) \in visited
           \/ /\ same_domain_only
              /\ urlparse(normalize_url(url)).netloc \notin seed_domains

(***************************************************************************)
(* C27: an iteration that discards the popped entry (depth > max_depth,    *)
(* failed normalization, visited already, domain restriction) removes the  *)
(* entry from the queue and changes nothing else: visited, the three       *)
(* counters, doc_id, the robots cache, the rate limiter and the saved      *)
(* files stay as they were, and no request is issued.                      *)
(***************************************************************************)
C27_DiscardFrame ==
    [][HeadDiscarded =>
          /\ url_queue' = Tail(url_queue)
          /\ visited' = visited
          /\ crawled_count' = crawled_count
          /\ failed_count' = failed_count
          /\ blocked_count' = blocked_count
          /\ doc_id' = doc_id
          /\ robot_checker' = robot_checker
          /\ rate_limiter' = rate_limiter
          /\ files' = files
          /\ requests' = requests
          /\ attempts' = attempts]_vars

\* a visited entry was discarded after a page was crawled, and the entry now
\* at the head, of a host that is no seed's, will be discarded too
C27_Witness ==
    /\ last.op = "skip_visited"
    /\ crawled_count >= 1
    /\ Len(requests) >= 2
    /\ rate_limiter # EmptyDict
    /\ HeadDiscarded
    /\ same_domain_only
    /\ normalize_url(url_queue[1][1]) # None
    /\ urlparse(normalize_url(url_queue[1][1])).netloc \notin seed_domains

(***************************************************************************)
(* C28: when can_fetch has returned, the process-wide default socket       *)
(* timeout is the one it was at the call, whether the read of robots.txt   *)
(* succeeded or failed.                                                    *)
(***************************************************************************)
C28_TimeoutRestored ==
    call_pc = "can_fetch returned" =>
        call_ret.default_timeout = call_arg.old_timeout

\* the positions in requests' of the requests the step issued
StepRequests == (Len(requests) + 1)..Len(requests')

(***************************************************************************)
(* C29: in an iteration in which download_file returned None, the second   *)
(* call of can_fetch issues no request (the only robots.txt request of the *)
(* iteration is the one the first call makes for an origin it has no       *)
(* answer for, before any page request) and gives the verdict of the       *)
(* first: the URL is counted as blocked exactly when the gate refused it   *)
(* and no page request was issued, and as failed otherwise.                *)
(***************************************************************************)
C29_SecondVerdict ==
    [][(Len(attempts') = Len(attempts) + 1 /\ ~attempts'[Len(attempts')].saved) =>
          LET a == attempts'[Len(attempts')]
              origin == OriginOf(a.url)
          IN  /\ \A k \in StepRequests :
                    IsRobots(requests'[k]) =>
                       /\ k = Len(requests) + 1
                       /\ origin \notin DOMAIN robot_checker.robots_cache
                       /\ origin \notin robot_checker.failed_domains
              /\ (\E k \in StepRequests : IsPage(requests'[k])) <=> a.allowed
              /\ blocked_count' = blocked_count + (IF a.allowed THEN 0 ELSE 1)
              /\ failed_count' = failed_count + (IF a.allowed THEN 1 ELSE 0)]_vars

\* a run counted one URL as blocked and, of the same origin, one whose page
\* request failed, the rules of the origin having been read once
C29_Witness ==
    /\ blocked_count = 1
    /\ failed_count = 1
    /\ \E i, j \in 1..Len(attempts) :
          /\ ~attempts[i].allowed
          /\ attempts[j].allowed /\ ~attempts[j].saved
          /\ OriginOf(attempts[i].url) = OriginOf(attempts[j].url)
          /\ Cardinality({k \in 1..Len(requests) :
                             /\ IsRobots(requests[k])
                             /\ requests[k].origin = OriginOf(attempts[i].url)}) = 1

(***************************************************************************)
(* C30: in a run with respect_robots off, no robots.txt request is issued, *)
(* the robots cache and the set of failed origins stay empty, can_fetch    *)
(* lets every URL through, blocked_count stays 0, and every visited URL is *)
(* counted as crawled or as failed.                                        *)
(***************************************************************************)
C30_RobotsOff ==
    ~respect_robots =>
        /\ \A k \in 1..Len(requests) : ~IsRobots(requests[k])
        /\ robot_checker = [robots_cache |-> EmptyDict, failed_domains |-> {}]
        /\ \A i \in 1..Len(attempts) : attempts[i].allowed
        /\ blocked_count = 0
        /\ pc \in {"loop", "done"} =>
              crawled_count + failed_count = Cardinality(visited)

\* a run with respect_robots off returned with a crawled and a failed URL
C30_Witness ==
    /\ ~respect_robots
    /\ pc = "done"
    /\ crawled_count >= 1
    /\ failed_count >= 1
    /\ Len(requests) = Cardinality(visited)
    /\ \E i \in 1..Len(attempts) : attempts[i].url = UrlP

=============================================================================
